---- MODULE Spec2Model ----
(***************************************************************************)
(* Model of src/lib/server/ratelimiter.ts: the rate limiter that keeps,    *)
(* per (user, model), a sorted set of request timestamps in a shared       *)
(* redis store.  Every await on the store is one step of a caller, so that *)
(* callers interleave exactly where the code suspends.                     *)
(*                                                                         *)
(* Representation.  A JavaScript string that the code takes apart (user    *)
(* ids, model names, storage keys) is a sequence of one-character strings. *)
(* A value that may be null/undefined is a sequence of length 0 or 1.      *)
(* Times are milliseconds, as Date.now() returns them.                     *)
(***************************************************************************)
EXTENDS Integers, Sequences, FiniteSets, TLC

VARIABLES
    env,      \* process.env: the settings the limiter reads
    premium,  \* what isPremiumUser answers for each user
    clock,    \* what Date.now() returns (ms)
    store,    \* redis: key -> set of members of the sorted set (member = score)
    ttl,      \* redis: key -> <<>> (no expiry) or <<time at which the key expires>>
    proc,     \* the callers: position in ratelimit / checkRateLimitWithoutIncrementing and locals
    hist,     \* what this behaviour keeps of the history of its calls
    last,     \* history: the call that returned last, with its result
    log       \* history: the Allowed results of ratelimit, in the order they returned

vars == <<env, premium, clock, store, ttl, proc, hist, last, log>>

----------------------------------------------------------------------------
(* Bounds of the model *)

\* number of concurrent callers (request handlers)
NumProcs == 3
\* Date.now() advances in jumps of TickMs milliseconds; two reads between two
\* jumps return the same millisecond
TickMs == 20000
\* number of jumps of the clock
MaxTicks == 4
\* number of jumps of the clock while callers race
RaceTicks == 3
\* number of jumps of the clock inside one window
WindowTicks == 2
\* the calls of ratelimit that return Allowed in one behaviour
MaxLog == 4
\* number of jumps of the clock while calls are given any user and any model
InputTicks == 1

Procs == 1..NumProcs
\* callers of the specification with every operation
NumCallers == 2
Callers == 1..NumCallers

----------------------------------------------------------------------------
(* Strings *)

Lower == <<"a","b","c","d","e","f","g","h","i","j","k","l","m",
           "n","o","p","q","r","s","t","u","v","w","x","y","z">>
Upper == <<"A","B","C","D","E","F","G","H","I","J","K","L","M",
           "N","O","P","Q","R","S","T","U","V","W","X","Y","Z">>

\* String.prototype.toUpperCase, one character
UpperChar(c) ==
    IF \E i \in 1..Len(Lower) : Lower[i] = c
    THEN Upper[CHOOSE i \in 1..Len(Lower) : Lower[i] = c]
    ELSE c

toUpperCase(s) == [i \in 1..Len(s) |-> UpperChar(s[i])]

\* s.replace(/-/g, "_")
replaceHyphens(s) == [i \in 1..Len(s) |-> IF s[i] = "-" THEN "_" ELSE s[i]]

startsWith(s, prefix) ==
    /\ Len(s) >= Len(prefix)
    /\ \A i \in 1..Len(prefix) : s[i] = prefix[i]

Gpt4 == <<"g","p","t","-","4">>
PluginsModel == <<"p","l","u","g","i","n","s">>
KeyPrefix == <<"r","a","t","e","l","i","m","i","t",":">>

Gpt4Turbo == <<"g","p","t","-","4","-","t","u","r","b","o">>
Hackergpt == <<"h","a","c","k","e","r","g","p","t">>
HackergptPro == Hackergpt \o <<"-","p","r","o">>
MistralMedium == <<"m","i","s","t","r","a","l","-","m","e","d","i","u","m">>
MistralLarge == <<"m","i","s","t","r","a","l","-","l","a","r","g","e">>
\* the models of the chat settings of a request to the plugins route
ChatModels == {MistralMedium, Gpt4Turbo}

\* plugins route, lines 66-73: the model whose budget the request is charged to
ratelimitmodel(chatModel) ==
    IF chatModel = MistralMedium THEN Hackergpt
    ELSE IF chatModel = MistralLarge THEN HackergptPro
    ELSE Gpt4

\* a model name that is none of the names the code knows
UnknownModel == <<"x">>

\* getModelName, lines 194-201: the names the code lists, and the gpt-4 family
IsKnownModel(model) ==
    \/ model \in {PluginsModel, <<"t","t","s","-","1">>, <<"s","t","t","-","1">>,
                  Hackergpt, Hackergpt \o <<"-","p","r","o">>, Gpt4}
    \/ startsWith(model, Gpt4)

\* the users and models of the calls of concurrent callers
User1 == <<"u","1">>
Users == {User1}
Models == {Gpt4}

\* every user and model that a call of the model is given
User2 == <<"u","2">>
EmptyUser == <<>>
AnyUsers == {User1, User2, EmptyUser}
AnyModels == {Gpt4, Gpt4Turbo, PluginsModel, Hackergpt, UnknownModel}

----------------------------------------------------------------------------
(* Settings *)

Undefined == "undefined"

\* values of RATELIMITER_ENABLED
EnabledSettings == {Undefined, "true", "TRUE", "false"}
\* values of the RATELIMITER_LIMIT_* settings
LimitSettings == {"0", "1", "2"}
\* value of the two window settings (minutes)
WindowSetting == "1"

\* String.prototype.toLowerCase on the values of RATELIMITER_ENABLED
toLowerCase(s) == IF s = "TRUE" THEN "true" ELSE s

\* Number(s) of a setting that is a decimal numeral
NumeralValue(s) ==
    CASE s = "0" -> 0
      [] s = "1" -> 1
      [] s = "2" -> 2
      [] s = "3" -> 3

IsNumeral(s) == s \in {"0", "1", "2", "3"}

\* values of the RATELIMITER_LIMIT_* settings that are no natural numeral
OddSettings == {"", " ", "abc", "-1", "1.5"}

\* a JavaScript number: NaN, or its floor and whether it is an integer
NaN == [nan |-> TRUE, floor |-> 0, whole |-> FALSE]
Whole(n) == [nan |-> FALSE, floor |-> n, whole |-> TRUE]

\* Number(s) of a string setting: an empty or blank string is 0, a string that
\* is no numeric literal is NaN
Number(s) ==
    IF IsNumeral(s) THEN Whole(NumeralValue(s))
    ELSE CASE s \in {"", " "} -> Whole(0)
           [] s = "-1" -> Whole(0 - 1)
           [] s = "1.5" -> [nan |-> FALSE, floor |-> 1, whole |-> FALSE]
           [] OTHER -> NaN

\* mutant: any value that is set enables the limiter
isRateLimiterEnabledIfSet == env.RATELIMITER_ENABLED # Undefined

\* mutant: the limiter is enabled unless the setting says otherwise
isRateLimiterEnabledByDefault ==
    \/ env.RATELIMITER_ENABLED = Undefined
    \/ toLowerCase(env.RATELIMITER_ENABLED) = "true"

isRateLimiterEnabled ==
    /\ env.RATELIMITER_ENABLED # Undefined
    /\ toLowerCase(env.RATELIMITER_ENABLED) = "true"

getTimeWindow(model) ==
    LET v == IF model = PluginsModel
             THEN env.RATELIMITER_TIME_PLUGINS_WINDOW_MINUTES
             ELSE env.RATELIMITER_TIME_WINDOW_MINUTES
    IN NumeralValue(v) * 60 * 1000

\* _getFixedModelName, lines 143-145, of the models of the calls, computed once
FixedModelNames ==
    [model \in AnyModels |->
        toUpperCase(replaceHyphens(IF startsWith(model, Gpt4) THEN Gpt4 ELSE model))]

\* mutant: only the name "gpt-4" itself is taken for the family
_getFixedModelNameExact(model) ==
    toUpperCase(replaceHyphens(IF model = Gpt4 THEN Gpt4 ELSE model))

_getFixedModelName(model) ==
    IF model \in AnyModels
    THEN FixedModelNames[model]
    ELSE toUpperCase(replaceHyphens(IF startsWith(model, Gpt4) THEN Gpt4 ELSE model))

_makeStorageKey(userId, model) ==
    KeyPrefix \o userId \o <<":">> \o _getFixedModelName(model)

FreeDefault == 15
PremiumDefault == 30

\* the name RATELIMITER_LIMIT_<NAME>_<TIER> as the pair <<NAME, TIER>>
LimitKey(model, isPremium) ==
    << IF model = PluginsModel THEN toUpperCase(model) ELSE _getFixedModelName(model),
       IF isPremium THEN "PREMIUM" ELSE "FREE" >>

\* mutant: the defaults of the two tiers are exchanged
_getLimitSwapped(model, isPremium) ==
    LET v == env.LIMIT[LimitKey(model, isPremium)]
        limit == IF v = Undefined
                 THEN Whole(IF isPremium THEN FreeDefault ELSE PremiumDefault)
                 ELSE Number(v)
    IN
    IF limit.nan \/ limit.floor < 0
    THEN [threw |-> TRUE, limit |-> 0, whole |-> FALSE]
    ELSE [threw |-> FALSE, limit |-> limit.floor, whole |-> limit.whole]

\* [threw |-> TRUE] for "Invalid limit configuration", else the limit: its floor,
\* and whether it is an integer
_getLimit(model, isPremium) ==
    LET v == env.LIMIT[LimitKey(model, isPremium)]
        limit == IF v = Undefined
                 THEN Whole(IF isPremium THEN PremiumDefault ELSE FreeDefault)
                 ELSE Number(v)
    IN
    IF limit.nan \/ limit.floor < 0
    THEN [threw |-> TRUE, limit |-> 0, whole |-> FALSE]
    ELSE [threw |-> FALSE, limit |-> limit.floor, whole |-> limit.whole]

Keys == {_makeStorageKey(u, m) : u \in AnyUsers, m \in AnyModels}
LimitKeys == {LimitKey(m, t) : m \in AnyModels, t \in BOOLEAN}

----------------------------------------------------------------------------
(* The store *)

Min(S) == CHOOSE x \in S : \A y \in S : x <= y
Max(S) == CHOOSE x \in S : \A y \in S : x >= y

\* redis.zrange(key, 0, 0, {withScores: true}): [] or [member, score]
zrange(key) ==
    IF store[key] = {} THEN <<>> ELSE <<Min(store[key]), Min(store[key])>>

\* const [firstMessageTime] = <the answer of zrange>
First(answer) == IF Len(answer) = 0 THEN <<>> ELSE <<answer[1]>>

\* !firstMessageTime
Falsy(first) == IF first = <<>> THEN TRUE ELSE first[1] = 0

zcard(key) == Cardinality(store[key])

\* Math.ceil(timeWindow / 1000)
CeilSeconds(timeWindow) == (timeWindow + 999) \div 1000

----------------------------------------------------------------------------
(* Results and callers *)

\* RateLimitResult
Allowed(remaining) == [allowed |-> TRUE, remaining |-> remaining, timeRemaining |-> <<>>]
Denied(remaining, timeRemaining) ==
    [allowed |-> FALSE, remaining |-> remaining, timeRemaining |-> timeRemaining]

\* the result of a call made while the limiter is not enabled
Bypass == Allowed(0 - 1)

NoUser == <<>>
NoModel == <<>>

\* getRateLimitErrorMessage, lines 158-191: the message, as what its text is made
\* of (the model, the time until access is restored, the hint to upgrade)
getRateLimitErrorMessage(timeRemaining, isPremium, model) ==
    [model |-> model, restoredIn |-> timeRemaining, upgrade |-> ~isPremium]

\* what checkRatelimitOnApi returns: null, or a response with the result
NoReturn == [null |-> FALSE, status |-> 0, message |-> <<>>, remaining |-> 0,
             timeRemaining |-> <<>>]
Null == [NoReturn EXCEPT !.null = TRUE]

\* mutant: the test of line 210 is inverted
ApiReturnsInverted(result, isPremium, model) ==
    IF ~result.allowed
    THEN Null
    ELSE [null |-> FALSE, status |-> 429,
          message |-> <<getRateLimitErrorMessage(result.timeRemaining, isPremium, model)>>,
          remaining |-> result.remaining, timeRemaining |-> result.timeRemaining]

\* checkRatelimitOnApi, lines 210-229
ApiReturns(result, isPremium, model) ==
    IF result.allowed
    THEN Null
    ELSE [null |-> FALSE, status |-> 429,
          message |-> <<getRateLimitErrorMessage(result.timeRemaining, isPremium, model)>>,
          remaining |-> result.remaining, timeRemaining |-> result.timeRemaining]

\* a caller that is in no call; a local is 0 or <<>> while it holds no value the
\* call will still read
IdleProc ==
    [pc |-> "idle", op |-> "none", userId |-> NoUser, model |-> NoModel,
     isPremium |-> FALSE, now |-> 0, limit |-> 0, pending |-> {},
     first |-> <<>>, count |-> 0, remaining |-> 0, nowAdd |-> 0, firstAdd |-> <<>>,
     timeRemaining |-> <<>>, sawZrange |-> <<>>, sawZcard |-> <<>>,
     route |-> <<>>]

\* history of one call: what it was given, what it read and did, and its result
\* once it has returned
NoCall ==
    [op |-> "none", userId |-> NoUser, model |-> NoModel, prev |-> "none",
     prevKey |-> <<>>, follow |-> <<>>, route |-> <<>>,
     setting |-> Undefined, returned |-> FALSE, error |-> "none",
     storeFaults |-> 0, frame |-> TRUE, api |-> NoReturn,
     pre |-> {}, preTtl |-> <<>>, post |-> {}, postTtl |-> <<>>, end |-> 0,
     limit |-> 0, now |-> 0, first |-> <<>>, count |-> 0, nowAdd |-> 0,
     firstAdd |-> <<>>, tierLookups |-> 0, storeReads |-> 0, storeWrites |-> 0,
     result |-> Allowed(0)]

\* the history of a call that the caller starts now on key; prev and prevKey are
\* the operation and the key of the call before it, follow what the call before
\* it returned, read and left, in a behaviour that keeps them
Begun(op, userId, model) ==
    [NoCall EXCEPT !.op = op, !.userId = userId, !.model = model,
                   !.prev = IF "prev" \in hist THEN last.op ELSE "none",
                   !.prevKey = IF "prev" \in hist /\ last.op # "none"
                               THEN _makeStorageKey(last.userId, last.model)
                               ELSE <<>>,
                   !.follow = IF "follow" \in hist
                              THEN <<[result |-> last.result, now |-> last.now,
                                      end |-> last.end, post |-> last.post,
                                      postTtl |-> last.postTtl, first |-> last.first,
                                      count |-> last.count]>>
                              ELSE <<>>,
                   !.setting = env.RATELIMITER_ENABLED,
                   !.pre = store[_makeStorageKey(userId, model)],
                   !.preTtl = ttl[_makeStorageKey(userId, model)]]

\* this step leaves every key but key as it is
Frame(key) == \A k \in Keys \ {key} : store'[k] = store[k] /\ ttl'[k] = ttl[k]

\* the history h of a call on key that returns r now, leaving the store as it is
\* after this step
Ended(h, r, key) ==
    [h EXCEPT !.returned = TRUE, !.result = r, !.end = clock,
              !.post = store'[key], !.postTtl = ttl'[key],
              !.frame = h.frame /\ Frame(key),
              !.api = IF h.op = "api"
                      THEN ApiReturns(r, premium[h.userId], h.model)
                      ELSE NoReturn]

\* the history h of a call on key that ends now with the error e
Thrown(h, e, key) == [Ended(h, h.result, key) EXCEPT !.error = e]

\* history: the record that a read of getRemaining was served from, in a
\* behaviour that keeps it
Saw(key) == IF "reads" \in hist THEN <<store[key]>> ELSE <<>>

\* the history variable last becomes r, in a behaviour that keeps it
Seen(r) == IF "last" \in hist THEN r ELSE last

\* mutant: the window has lapsed only after its end (now > windowEndTime)
RemainingOfLate(limit, timeWindow, now, first, count) ==
    IF Falsy(first)
    THEN <<limit, <<>>>>
    ELSE LET windowEndTime == first[1] + timeWindow IN
         IF now > windowEndTime
         THEN <<limit, <<>>>>
         ELSE LET remaining == IF limit - count > 0 THEN limit - count ELSE 0 IN
              <<remaining, IF remaining = 0 THEN <<windowEndTime - now>> ELSE <<>>>>

\* mutant: timeRemaining is half of the time to the end of the window
RemainingOfHalved(limit, timeWindow, now, first, count) ==
    IF Falsy(first)
    THEN <<limit, <<>>>>
    ELSE LET windowEndTime == first[1] + timeWindow IN
         IF now >= windowEndTime
         THEN <<limit, <<>>>>
         ELSE LET remaining == IF limit - count > 0 THEN limit - count ELSE 0 IN
              <<remaining,
                IF remaining = 0 THEN <<(windowEndTime - now) \div 2>> ELSE <<>>>>

\* getRemaining, lines 73-84: from what it read to [remaining, timeRemaining]
RemainingOf(limit, timeWindow, now, first, count) ==
    IF Falsy(first)
    THEN <<limit, <<>>>>
    ELSE LET windowEndTime == first[1] + timeWindow IN
         IF now >= windowEndTime
         THEN <<limit, <<>>>>
         ELSE LET remaining == IF limit - count > 0 THEN limit - count ELSE 0 IN
              <<remaining, IF remaining = 0 THEN <<windowEndTime - now>> ELSE <<>>>>

\* _addRequest, line 128: start a new window?
StartsNewWindow(firstAdd, nowAdd, timeWindow) ==
    IF Falsy(firstAdd) THEN TRUE ELSE nowAdd - firstAdd[1] >= timeWindow

----------------------------------------------------------------------------
(* Initial state *)

Epoch == TickMs

\* the state after deployment with RATELIMITER_ENABLED among enabled, every
\* limit setting among limits and every user of one tier among tiers: no caller is
\* in a call, no key is in the store
InitWith(enabled, limits, tiers, kept) ==
    /\ \E e \in enabled, l \in limits :
          env = [RATELIMITER_ENABLED |-> e,
                 RATELIMITER_TIME_WINDOW_MINUTES |-> WindowSetting,
                 RATELIMITER_TIME_PLUGINS_WINDOW_MINUTES |-> WindowSetting,
                 LIMIT |-> [k \in LimitKeys |-> l]]
    /\ premium \in {[u \in AnyUsers |-> t] : t \in tiers}
    /\ clock = Epoch
    /\ store = [k \in Keys |-> {}]
    /\ ttl = [k \in Keys |-> <<>>]
    /\ proc = [p \in Procs |-> IdleProc]
    /\ hist = kept
    /\ last = NoCall
    /\ log = <<>>

\* the limiter enabled with a limit of 2, a free-tier user, no history
Init == InitWith({"true"}, {"2"}, {FALSE}, {})

\* the limiter enabled with a limit of 1, a free-tier user
InitRace == InitWith({"true"}, {"1"}, {FALSE}, {"log"})

\* the limiter enabled with a limit of 1 or 2, a free-tier user
InitLogged == InitWith({"true"}, {"1", "2"}, {FALSE}, {"log"})

\* the limiter enabled with every limit, a free-tier user
InitSeq == InitWith({"true"}, LimitSettings, {FALSE}, {"last", "log"})

\* the limiter enabled with every value of the limit settings, users of either
\* tier
InitConfig ==
    InitWith({"true"}, OddSettings \cup {Undefined, "0", "2"}, BOOLEAN, {"last", "log"})

\* the limiter enabled with a limit of 2, free-tier users
InitInputs == InitWith({"true"}, {"2"}, {FALSE}, {"last", "reset"})

\* the limiter enabled with a limit of 2, a free-tier user, the history of the
\* last call
InitFaults == InitWith({"true"}, {"2"}, {FALSE}, {"last"})

\* the limiter enabled with a limit of 0 or 2, free-tier users, the history of the
\* last call and of the call before it
InitReset == InitWith({"true"}, {"0", "2"}, {FALSE}, {"last", "prev", "reset"})

\* the limiter enabled or disabled, with every limit, a free-tier user
InitApi == InitWith({"true", "false"}, LimitSettings, {FALSE}, {"last"})

\* the limiter enabled with a limit of 2, a free-tier user, the history of the
\* reads of getRemaining
InitReads == InitWith({"true"}, {"2"}, {FALSE}, {"reads"})

\* the limiter enabled with every limit, a free-tier user, the history of the
\* last call, of the call before it and of the reads of getRemaining
InitFollow ==
    InitWith({"true"}, LimitSettings, {FALSE}, {"last", "prev", "follow", "reads"})

\* the limiter enabled with a limit of 2, a free-tier user, the log of the
\* Allowed results
InitAppend == InitWith({"true"}, {"2"}, {FALSE}, {"log", "fresh"})

\* the limiter enabled with a limit of 1, a free-tier user, no history yet
InitWait == InitWith({"true"}, {"1"}, {FALSE}, {})

\* the limiter enabled with a limit of 2 for every budget, a free-tier user,
\* the history of the last call
InitRoute == InitWith({"true"}, {"2"}, {FALSE}, {"last"})

\* every value of RATELIMITER_ENABLED, with a limit of 2
InitSettings == InitWith(EnabledSettings, {"2"}, {FALSE}, {"last"})

----------------------------------------------------------------------------
(* ratelimit and checkRateLimitWithoutIncrementing *)

\* the callers that are in a call of ratelimit
InAdmit == {q \in Procs : proc[q].op = "admit"}

\* ratelimit, lines 28-30, and checkRateLimitWithoutIncrementing, lines 236-238
CallBypass(p, op, userId, model) ==
    /\ proc[p].pc = "idle"
    /\ ~isRateLimiterEnabled
    /\ UNCHANGED <<env, premium, hist, clock, store, ttl, proc, log>>
    /\ last' = Seen(Ended(Begun(op, userId, model), Bypass,
                          _makeStorageKey(userId, model)))

\* ratelimit, line 31, and checkRateLimitWithoutIncrementing, line 239: the call
\* awaits isPremiumUser
CallBegin(p, op, userId, model) ==
    /\ proc[p].pc = "idle"
    /\ isRateLimiterEnabled
    /\ (op = "admit" /\ "log" \in hist) => Len(log) + Cardinality(InAdmit) < MaxLog
    /\ proc' = [proc EXCEPT ![p] =
                  [IdleProc EXCEPT !.pc = "tier", !.op = op, !.userId = userId,
                                   !.model = model]]
    /\ last' = Seen(Begun(op, userId, model))
    /\ UNCHANGED <<env, premium, hist, clock, store, ttl, log>>

\* plugins route, lines 66-79: the first check, checkRatelimitOnApi(user_id,
\* "plugins"), runs to the await of its ratelimit (line 31)
RouteBegin(p, userId, chatModel) ==
    /\ proc[p].pc = "idle"
    /\ isRateLimiterEnabled
    /\ proc' = [proc EXCEPT ![p] =
                  [IdleProc EXCEPT !.pc = "tier", !.op = "api", !.userId = userId,
                                   !.model = PluginsModel,
                                   !.route = <<ratelimitmodel(chatModel)>>]]
    /\ last' = Seen([Begun("api", userId, PluginsModel)
                        EXCEPT !.route = <<[check |-> "plugins", pre |-> store]>>])
    /\ UNCHANGED <<env, premium, hist, clock, store, ttl, log>>

\* plugins route, lines 80-87: the first check returned null; the second check,
\* checkRatelimitOnApi(user_id, ratelimitmodel), runs to the await of its
\* ratelimit
RouteContinue(p) ==
    LET c == proc[p] IN
    /\ c.pc = "routeNext"
    /\ proc' = [proc EXCEPT ![p] =
                  [IdleProc EXCEPT !.pc = "tier", !.op = "api", !.userId = c.userId,
                                   !.model = c.route[1]]]
    /\ last' = Seen([Begun("api", c.userId, c.route[1])
                        EXCEPT !.route = <<[check |-> "model", pre |-> last.route[1].pre]>>])
    /\ UNCHANGED <<env, premium, hist, clock, store, ttl, log>>

\* isPremiumUser answers; getRemaining runs to its await (lines 62-71)
TierLookup(p) ==
    LET c == proc[p]
        lim == _getLimit(c.model, premium[c.userId])
    IN
    /\ c.pc = "tier"
    /\ ~lim.threw
    \* the model follows a call with an integer limit only
    /\ lim.whole
    /\ proc' = [proc EXCEPT ![p] =
                  [c EXCEPT !.pc = "acct", !.isPremium = premium[c.userId],
                            !.now = clock, !.limit = lim.limit,
                            !.pending = {"zrange", "zcard"}]]
    /\ last' = Seen([last EXCEPT !.tierLookups = @ + 1, !.now = clock,
                                 !.limit = lim.limit])
    /\ UNCHANGED <<env, premium, hist, clock, store, ttl, log>>

\* isPremiumUser answers; _getLimit throws (lines 115-117) and the call ends
\* with its error
TierThrow(p) ==
    LET c == proc[p]
        lim == _getLimit(c.model, premium[c.userId])
    IN
    /\ c.pc = "tier"
    /\ lim.threw
    /\ proc' = [proc EXCEPT ![p] = IdleProc]
    /\ UNCHANGED <<env, premium, hist, clock, store, ttl, log>>
    /\ last' = Seen(Thrown([last EXCEPT !.tierLookups = @ + 1],
                           "Invalid limit configuration",
                           _makeStorageKey(c.userId, c.model)))

\* the store serves the zrange of getRemaining (line 69)
AcctZrange(p) ==
    LET c == proc[p]
        answer == zrange(_makeStorageKey(c.userId, c.model))
    IN
    /\ c.pc = "acct"
    /\ "zrange" \in c.pending
    /\ proc' = [proc EXCEPT ![p] =
                  [c EXCEPT !.first = First(answer),
                            !.pending = c.pending \ {"zrange"},
                            !.sawZrange = Saw(_makeStorageKey(c.userId, c.model))]]
    /\ last' = Seen([last EXCEPT !.storeReads = @ + 1, !.first = First(answer)])
    /\ UNCHANGED <<env, premium, hist, clock, store, ttl, log>>

\* the store serves the zcard of getRemaining (line 70)
AcctZcard(p) ==
    LET c == proc[p]
        answer == zcard(_makeStorageKey(c.userId, c.model))
    IN
    /\ c.pc = "acct"
    /\ "zcard" \in c.pending
    /\ proc' = [proc EXCEPT ![p] =
                  [c EXCEPT !.count = answer, !.pending = c.pending \ {"zcard"},
                            !.sawZcard = Saw(_makeStorageKey(c.userId, c.model))]]
    /\ last' = Seen([last EXCEPT !.storeReads = @ + 1, !.count = answer])
    /\ UNCHANGED <<env, premium, hist, clock, store, ttl, log>>

\* what getRemaining returns to a caller with locals c, once both answers are in
Accounted(c) ==
    RemainingOf(c.limit, getTimeWindow(c.model), c.now, c.first, c.count)

\* checkRateLimitWithoutIncrementing, lines 245-248
PeekResult(c) ==
    IF Accounted(c)[1] = 0
    THEN Denied(0, Accounted(c)[2])
    ELSE Allowed(Accounted(c)[1])

\* mutant: the peek records a request, as _ratelimit does
PeekReturnCounting(p) ==
    LET c == proc[p]
        key == _makeStorageKey(c.userId, c.model)
    IN
    /\ c.pc = "acct"
    /\ c.pending = {}
    /\ c.op = "peek"
    /\ proc' = [proc EXCEPT ![p] = IdleProc]
    /\ store' = [store EXCEPT ![key] = store[key] \cup {clock}]
    /\ UNCHANGED <<env, premium, hist, clock, ttl, log>>
    /\ last' = Seen(Ended(last, PeekResult(c), key))

\* mutant: the peek deletes a record whose window has lapsed
PeekReturnClearing(p) ==
    LET c == proc[p]
        key == _makeStorageKey(c.userId, c.model)
        lapsed == store[key] # {} /\ c.now >= Min(store[key]) + getTimeWindow(c.model)
    IN
    /\ c.pc = "acct"
    /\ c.pending = {}
    /\ c.op = "peek"
    /\ proc' = [proc EXCEPT ![p] = IdleProc]
    /\ store' = [store EXCEPT ![key] = IF lapsed THEN {} ELSE store[key]]
    /\ ttl' = [ttl EXCEPT ![key] = IF lapsed THEN <<>> ELSE ttl[key]]
    /\ UNCHANGED <<env, premium, hist, clock, log>>
    /\ last' = Seen(Ended(last, PeekResult(c), key))

PeekReturn(p) ==
    LET c == proc[p] IN
    /\ c.pc = "acct"
    /\ c.pending = {}
    /\ c.op = "peek"
    /\ proc' = [proc EXCEPT ![p] = IdleProc]
    /\ UNCHANGED <<env, premium, hist, clock, store, ttl, log>>
    /\ last' = Seen(Ended(last, PeekResult(c), _makeStorageKey(c.userId, c.model)))

\* mutant: the denied attempt is recorded in the window
AdmitDeniedCounting(p) ==
    LET c == proc[p]
        key == _makeStorageKey(c.userId, c.model)
    IN
    /\ c.pc = "acct"
    /\ c.pending = {}
    /\ c.op = "admit"
    /\ Accounted(c)[1] = 0
    /\ proc' = [proc EXCEPT ![p] = IdleProc]
    /\ store' = [store EXCEPT ![key] = store[key] \cup {c.now}]
    /\ UNCHANGED <<env, premium, hist, clock, ttl, log>>
    /\ last' = Seen(Ended(last, Denied(Accounted(c)[1], Accounted(c)[2]), key))

\* _ratelimit, lines 50-52
AdmitDenied(p) ==
    LET c == proc[p] IN
    /\ c.pc = "acct"
    /\ c.pending = {}
    /\ c.op = "admit"
    /\ Accounted(c)[1] = 0
    /\ proc' = [proc EXCEPT ![p] = IdleProc]
    /\ UNCHANGED <<env, premium, hist, clock, store, ttl, log>>
    /\ last' = Seen(Ended(last, Denied(Accounted(c)[1], Accounted(c)[2]),
                          _makeStorageKey(c.userId, c.model)))

\* checkRatelimitOnApi, lines 209-213: its ratelimit returns Denied (lines 50-52)
\* and it awaits isPremiumUser
ApiDenied(p) ==
    LET c == proc[p] IN
    /\ c.pc = "acct"
    /\ c.pending = {}
    /\ c.op = "api"
    /\ Accounted(c)[1] = 0
    /\ proc' = [proc EXCEPT ![p] =
                  [IdleProc EXCEPT !.pc = "apiTier", !.op = c.op, !.userId = c.userId,
                                   !.route = c.route,
                                   !.model = c.model, !.remaining = Accounted(c)[1],
                                   !.timeRemaining = Accounted(c)[2]]]
    /\ UNCHANGED <<env, premium, hist, clock, store, ttl, last, log>>

\* checkRatelimitOnApi, lines 213-229: isPremiumUser answers, the response is
\* built and returned
ApiRespond(p) ==
    LET c == proc[p] IN
    /\ c.pc = "apiTier"
    /\ proc' = [proc EXCEPT ![p] = IdleProc]
    /\ UNCHANGED <<env, premium, hist, clock, store, ttl, log>>
    /\ last' = Seen(Ended([last EXCEPT !.tierLookups = @ + 1],
                          Denied(c.remaining, c.timeRemaining),
                          _makeStorageKey(c.userId, c.model)))

\* _ratelimit, line 53: _addRequest runs to its await (lines 122-126)
AddBegin(p) ==
    LET c == proc[p] IN
    /\ c.pc = "acct"
    /\ c.pending = {}
    /\ c.op \in {"admit", "api"}
    /\ Accounted(c)[1] # 0
    /\ proc' = [proc EXCEPT ![p] =
                  [IdleProc EXCEPT !.pc = "addRead", !.op = c.op, !.userId = c.userId,
                                   !.route = c.route,
                                   !.model = c.model, !.remaining = Accounted(c)[1],
                                   !.nowAdd = clock]]
    /\ last' = Seen([last EXCEPT !.nowAdd = clock])
    /\ UNCHANGED <<env, premium, hist, clock, store, ttl, log>>

\* the store serves the zrange of _addRequest (line 126)
AddZrange(p) ==
    LET c == proc[p]
        answer == zrange(_makeStorageKey(c.userId, c.model))
    IN
    /\ c.pc = "addRead"
    /\ proc' = [proc EXCEPT ![p] = [c EXCEPT !.pc = "addWrite",
                                             !.firstAdd = First(answer)]]
    /\ last' = Seen([last EXCEPT !.storeReads = @ + 1, !.firstAdd = First(answer)])
    /\ UNCHANGED <<env, premium, hist, clock, store, ttl, log>>

\* history: has the _addRequest of the caller with locals c started a new window
\* (line 128), in a behaviour that keeps it
Fresh(c) ==
    IF "fresh" \in hist
    THEN StartsNewWindow(c.firstAdd, c.nowAdd, getTimeWindow(c.model))
    ELSE FALSE

\* the caller after its call with locals c has returned null or Allowed: the
\* plugins route goes on to its second check (plugins route, lines 76-82), any
\* other caller is done
Resumed(c) ==
    IF c.route # <<>>
    THEN [IdleProc EXCEPT !.pc = "routeNext", !.op = c.op, !.userId = c.userId,
                          !.route = c.route]
    ELSE IdleProc

\* mutant: the result carries the remaining of getRemaining, not one less
AdmitReturnUndecremented(p, c, key) ==
    /\ last' = Seen(Ended([last EXCEPT !.storeWrites = @ + 1],
                          Allowed(c.remaining), key))
    /\ log' = IF "log" \in hist
              THEN Append(log, [remaining |-> c.remaining - 1, event |-> c.nowAdd,
                                start |-> Min(store'[key]),
                                before |-> Cardinality(store[key]),
                                card |-> Cardinality(store'[key]),
                                fresh |-> Fresh(c)])
              ELSE log
    /\ proc' = [proc EXCEPT ![p] = Resumed(c)]

\* _ratelimit, line 54, after the write of _addRequest
AdmitReturn(p, c, key) ==
    /\ last' = Seen(Ended([last EXCEPT !.storeWrites = @ + 1],
                          Allowed(c.remaining - 1), key))
    /\ log' = IF "log" \in hist
              THEN Append(log, [remaining |-> c.remaining - 1, event |-> c.nowAdd,
                                start |-> Min(store'[key]),
                                before |-> Cardinality(store[key]),
                                card |-> Cardinality(store'[key]),
                                fresh |-> Fresh(c)])
              ELSE log
    /\ proc' = [proc EXCEPT ![p] = Resumed(c)]

\* mutant: the transaction deletes and inserts, without the expire
AddNewWindowKeepingExpiry(p) ==
    LET c == proc[p]
        key == _makeStorageKey(c.userId, c.model)
    IN
    /\ c.pc = "addWrite"
    /\ StartsNewWindow(c.firstAdd, c.nowAdd, getTimeWindow(c.model))
    /\ store' = [store EXCEPT ![key] = {c.nowAdd}]
    /\ ttl' = ttl
    /\ AdmitReturn(p, c, key)
    /\ UNCHANGED <<env, premium, hist, clock>>

\* _addRequest, lines 130-135: the store runs the transaction del, zadd, expire
AddNewWindow(p) ==
    LET c == proc[p]
        key == _makeStorageKey(c.userId, c.model)
    IN
    /\ c.pc = "addWrite"
    /\ StartsNewWindow(c.firstAdd, c.nowAdd, getTimeWindow(c.model))
    /\ store' = [store EXCEPT ![key] = {c.nowAdd}]
    /\ ttl' = [ttl EXCEPT ![key] = <<clock + 1000 * CeilSeconds(getTimeWindow(c.model))>>]
    /\ AdmitReturn(p, c, key)
    /\ UNCHANGED <<env, premium, hist, clock>>

\* mutant: the append writes back the record as the zrange of line 126 found it,
\* with the new event
AddToWindowStale(p) ==
    LET c == proc[p]
        key == _makeStorageKey(c.userId, c.model)
    IN
    /\ c.pc = "addWrite"
    /\ ~StartsNewWindow(c.firstAdd, c.nowAdd, getTimeWindow(c.model))
    /\ store' = [store EXCEPT ![key] = {c.firstAdd[1], c.nowAdd}]
    /\ ttl' = ttl
    /\ AdmitReturn(p, c, key)
    /\ UNCHANGED <<env, premium, hist, clock>>

\* _addRequest, line 138: the store runs the zadd
AddToWindow(p) ==
    LET c == proc[p]
        key == _makeStorageKey(c.userId, c.model)
    IN
    /\ c.pc = "addWrite"
    /\ ~StartsNewWindow(c.firstAdd, c.nowAdd, getTimeWindow(c.model))
    /\ store' = [store EXCEPT ![key] = store[key] \cup {c.nowAdd}]
    /\ ttl' = ttl
    /\ AdmitReturn(p, c, key)
    /\ UNCHANGED <<env, premium, hist, clock>>

\* mutant: the reset deletes the record of the model for every user
ResetRateLimitOfAll(model, userId) ==
    LET storageKey == _makeStorageKey(userId, model)
        keys == {_makeStorageKey(u, model) : u \in AnyUsers}
    IN
    /\ store' = [k \in Keys |-> IF k \in keys THEN {} ELSE store[k]]
    /\ ttl' = [k \in Keys |-> IF k \in keys THEN <<>> ELSE ttl[k]]
    /\ last' = IF "reset" \in hist
               THEN Seen(Ended([Begun("reset", userId, model) EXCEPT !.storeWrites = 1],
                               Allowed(0), storageKey))
               ELSE last
    /\ UNCHANGED <<env, premium, hist, clock, proc, log>>

\* resetRateLimit, lines 153-156
ResetRateLimit(model, userId) ==
    LET storageKey == _makeStorageKey(userId, model) IN
    /\ store' = [store EXCEPT ![storageKey] = {}]
    /\ ttl' = [ttl EXCEPT ![storageKey] = <<>>]
    /\ last' = IF "reset" \in hist
               THEN Seen(Ended([Begun("reset", userId, model) EXCEPT !.storeWrites = 1],
                               Allowed(0), storageKey))
               ELSE last
    /\ UNCHANGED <<env, premium, hist, clock, proc, log>>

----------------------------------------------------------------------------
(* Store failures *)

\* what a write of caller c on key that the store reports as failed (an error, a
\* timeout) can leave: the record and its expiry as they were, or as the whole
\* write leaves them (the transaction of lines 130-135 is atomic)
FailedWriteLeaves(c, key) ==
    {[store |-> store[key], ttl |-> ttl[key]],
     IF StartsNewWindow(c.firstAdd, c.nowAdd, getTimeWindow(c.model))
     THEN [store |-> {c.nowAdd},
           ttl |-> <<clock + 1000 * CeilSeconds(getTimeWindow(c.model))>>]
     ELSE [store |-> store[key] \cup {c.nowAdd}, ttl |-> ttl[key]]}

\* one of the two reads of getRemaining is rejected: Promise.all rejects (lines
\* 68-71), no caller up to the request handler catches, the call ends with the
\* error
AcctFail(p) ==
    LET c == proc[p] IN
    /\ c.pc = "acct"
    /\ c.pending # {}
    /\ proc' = [proc EXCEPT ![p] = IdleProc]
    /\ UNCHANGED <<env, premium, hist, clock, store, ttl, log>>
    /\ last' = Seen(Thrown([last EXCEPT !.storeFaults = @ + 1], "store failure",
                           _makeStorageKey(c.userId, c.model)))

\* the zrange of _addRequest is rejected (line 126)
AddReadFail(p) ==
    LET c == proc[p] IN
    /\ c.pc = "addRead"
    /\ proc' = [proc EXCEPT ![p] = IdleProc]
    /\ UNCHANGED <<env, premium, hist, clock, store, ttl, log>>
    /\ last' = Seen(Thrown([last EXCEPT !.storeFaults = @ + 1], "store failure",
                           _makeStorageKey(c.userId, c.model)))

\* mutant: the failure of the write is caught and the request is let through
AddWriteFailOpen(p) ==
    LET c == proc[p]
        key == _makeStorageKey(c.userId, c.model)
    IN
    /\ c.pc = "addWrite"
    /\ \E left \in FailedWriteLeaves(c, key) :
          /\ store' = [store EXCEPT ![key] = left.store]
          /\ ttl' = [ttl EXCEPT ![key] = left.ttl]
    /\ proc' = [proc EXCEPT ![p] = IdleProc]
    /\ UNCHANGED <<env, premium, hist, clock, log>>
    /\ last' = Seen(Ended([last EXCEPT !.storeFaults = @ + 1],
                          Allowed(c.remaining - 1), key))

\* the write of _addRequest is rejected (lines 130-135 or 138): _addRequest and
\* _ratelimit throw before line 54
AddWriteFail(p) ==
    LET c == proc[p]
        key == _makeStorageKey(c.userId, c.model)
    IN
    /\ c.pc = "addWrite"
    /\ \E left \in FailedWriteLeaves(c, key) :
          /\ store' = [store EXCEPT ![key] = left.store]
          /\ ttl' = [ttl EXCEPT ![key] = left.ttl]
    /\ proc' = [proc EXCEPT ![p] = IdleProc]
    /\ UNCHANGED <<env, premium, hist, clock, log>>
    /\ last' = Seen(Thrown([last EXCEPT !.storeFaults = @ + 1], "store failure", key))

----------------------------------------------------------------------------
(* Environment *)

\* time passes
ClockTick(ticks) ==
    /\ clock < Epoch + ticks * TickMs
    /\ clock' = clock + TickMs
    /\ UNCHANGED <<env, premium, hist, store, ttl, proc, last, log>>

\* the service is deployed again with another value of RATELIMITER_ENABLED; the
\* store keeps its records
Redeploy(setting) ==
    /\ \A p \in Procs : proc[p].pc = "idle"
    /\ setting # env.RATELIMITER_ENABLED
    /\ env' = [env EXCEPT !.RATELIMITER_ENABLED = setting]
    /\ UNCHANGED <<premium, hist, clock, store, ttl, proc, last, log>>

\* redis removes a key whose expiry has passed
StoreExpire(key) ==
    /\ ttl[key] # <<>>
    /\ clock >= ttl[key][1]
    /\ store' = [store EXCEPT ![key] = {}]
    /\ ttl' = [ttl EXCEPT ![key] = <<>>]
    /\ UNCHANGED <<env, premium, hist, clock, proc, last, log>>

----------------------------------------------------------------------------
(* Specifications *)

\* a step of caller p inside a call of ratelimit
AdmitStep(p) ==
    \/ TierLookup(p)
    \/ AcctZrange(p)
    \/ AcctZcard(p)
    \/ AdmitDenied(p)
    \/ AddBegin(p)
    \/ AddZrange(p)
    \/ AddNewWindow(p)
    \/ AddToWindow(p)

NoneInCall == \A p \in Procs : proc[p].pc = "idle"

\* concurrent callers of ratelimit, checkRateLimitWithoutIncrementing and
\* resetRateLimit
Next ==
    \/ \E p \in Callers, op \in {"admit", "peek"}, u \in Users, m \in Models :
          CallBegin(p, op, u, m)
    \/ \E p \in Callers : AdmitStep(p)
    \/ \E p \in Callers : PeekReturn(p)
    \/ \E u \in Users, m \in Models : ResetRateLimit(m, u)
    \/ ClockTick(RaceTicks)
    \/ \E k \in Keys : StoreExpire(k)

Spec == Init /\ [][Next]_vars

\* concurrent callers of ratelimit alone, inside one window
NextAdmit ==
    \/ \E p \in Procs, u \in Users, m \in Models : CallBegin(p, "admit", u, m)
    \/ \E p \in Procs : AdmitStep(p)
    \/ ClockTick(WindowTicks)

SpecAdmit == InitRace /\ [][NextAdmit]_vars

\* one call at a time
NextSeq ==
    \/ \E op \in {"admit", "peek"}, u \in Users, m \in Models : CallBegin(1, op, u, m)
    \/ AdmitStep(1)
    \/ PeekReturn(1)
    \/ NoneInCall /\ \E u \in Users, m \in Models : ResetRateLimit(m, u)
    \/ ClockTick(MaxTicks)
    \/ \E k \in Keys : StoreExpire(k)

SpecSeq == InitSeq /\ [][NextSeq]_vars

\* one call at a time, between deployments with any value of RATELIMITER_ENABLED
NextSettings ==
    \/ \E op \in {"admit", "peek"}, u \in Users, m \in Models : CallBypass(1, op, u, m)
    \/ \E op \in {"admit", "peek"}, u \in Users, m \in Models : CallBegin(1, op, u, m)
    \/ AdmitStep(1)
    \/ PeekReturn(1)
    \/ \E e \in EnabledSettings : Redeploy(e)
    \/ ClockTick(RaceTicks)
    \/ \E k \in Keys : StoreExpire(k)

SpecSettings == InitSettings /\ [][NextSettings]_vars

\* one call of ratelimit at a time
NextSeqAdmit ==
    \/ \E u \in Users, m \in Models : CallBegin(1, "admit", u, m)
    \/ AdmitStep(1)
    \/ ClockTick(MaxTicks)
    \/ \E k \in Keys : StoreExpire(k)

SpecSeqAdmit == InitLogged /\ [][NextSeqAdmit]_vars

\* one call at a time, under every value of the limit settings
NextConfig ==
    \/ \E op \in {"admit", "peek"}, m \in {Gpt4, PluginsModel} :
          CallBegin(1, op, User1, m)
    \/ AdmitStep(1)
    \/ TierThrow(1)
    \/ PeekReturn(1)
    \/ ClockTick(WindowTicks)

SpecConfig == InitConfig /\ [][NextConfig]_vars

\* the inputs <<userId, model>> of the calls given any user and any model
CallInputs ==
    {<<User1, Gpt4>>, <<User1, Gpt4Turbo>>, <<User2, Gpt4>>, <<EmptyUser, UnknownModel>>}

\* one call at a time, given any user and any model
NextInputs ==
    \/ \E op \in {"admit", "peek"}, i \in CallInputs : CallBegin(1, op, i[1], i[2])
    \/ AdmitStep(1)
    \/ PeekReturn(1)
    \/ NoneInCall /\ \E i \in CallInputs : ResetRateLimit(i[2], i[1])
    \/ ClockTick(InputTicks)

SpecInputs == InitInputs /\ [][NextInputs]_vars

\* one call at a time, against a store whose operations can fail
NextFaults ==
    \/ \E op \in {"admit", "peek"}, u \in Users, m \in Models : CallBegin(1, op, u, m)
    \/ AdmitStep(1)
    \/ PeekReturn(1)
    \/ AcctFail(1)
    \/ AddReadFail(1)
    \/ AddWriteFail(1)
    \/ ClockTick(MaxTicks)
    \/ \E k \in Keys : StoreExpire(k)

SpecFaults == InitFaults /\ [][NextFaults]_vars

\* the inputs <<userId, model>> of the calls of two users
TwoUsers == {<<User1, Gpt4>>, <<User2, Gpt4>>}

\* one call at a time, of two users, with administrative resets
NextReset ==
    \/ \E op \in {"admit", "peek"}, i \in TwoUsers : CallBegin(1, op, i[1], i[2])
    \/ AdmitStep(1)
    \/ PeekReturn(1)
    \/ NoneInCall /\ \E i \in TwoUsers : ResetRateLimit(i[2], i[1])
    \/ ClockTick(RaceTicks)
    \/ \E k \in Keys : StoreExpire(k)

SpecReset == InitReset /\ [][NextReset]_vars

\* one call of checkRatelimitOnApi at a time
NextApi ==
    \/ \E u \in Users, m \in Models : CallBypass(1, "api", u, m)
    \/ \E u \in Users, m \in Models : CallBegin(1, "api", u, m)
    \/ TierLookup(1)
    \/ AcctZrange(1)
    \/ AcctZcard(1)
    \/ ApiDenied(1)
    \/ ApiRespond(1)
    \/ AddBegin(1)
    \/ AddZrange(1)
    \/ AddNewWindow(1)
    \/ AddToWindow(1)
    \/ ClockTick(MaxTicks)
    \/ \E k \in Keys : StoreExpire(k)

SpecApi == InitApi /\ [][NextApi]_vars

\* concurrent callers of ratelimit, checkRateLimitWithoutIncrementing and
\* resetRateLimit, inside one window
NextReads ==
    \/ \E p \in Callers, op \in {"admit", "peek"}, u \in Users, m \in Models :
          CallBegin(p, op, u, m)
    \/ \E p \in Callers : AdmitStep(p)
    \/ \E p \in Callers : PeekReturn(p)
    \/ \E u \in Users, m \in Models : ResetRateLimit(m, u)
    \/ ClockTick(WindowTicks)

SpecReads == InitReads /\ [][NextReads]_vars

\* a pair of concurrent callers of ratelimit, inside one window
Appenders == {1, 2}

NextAppend ==
    \/ \E p \in Appenders, u \in Users, m \in Models : CallBegin(p, "admit", u, m)
    \/ \E p \in Appenders : AdmitStep(p)
    \/ ClockTick(WindowTicks)

SpecAppend == InitAppend /\ [][NextAppend]_vars

\* the concurrent callers have all returned; from here on the calls are made one
\* after the other and their history is kept
Quiesce ==
    /\ hist = {}
    /\ NoneInCall
    /\ hist' = {"last", "prev", "follow"}
    /\ UNCHANGED <<env, premium, clock, store, ttl, proc, last, log>>

\* a pair of concurrent callers of ratelimit, and after them calls of ratelimit
\* made one after the other
NextWait ==
    \/ /\ hist = {}
       /\ \E p \in Appenders, u \in Users, m \in Models : CallBegin(p, "admit", u, m)
    \/ /\ hist = {}
       /\ \E p \in Appenders : AdmitStep(p)
    \/ Quiesce
    \/ /\ hist # {}
       /\ \E u \in Users, m \in Models : CallBegin(1, "admit", u, m)
    \/ /\ hist # {}
       /\ AdmitStep(1)
    \/ ClockTick(MaxTicks)
    \/ \E k \in Keys : StoreExpire(k)

SpecWait == InitWait /\ [][NextWait]_vars

\* one request at a time, to the plugins route or to a chat route that makes
\* the one check checkRatelimitOnApi(user_id, model)
NextRoute ==
    \/ \E u \in Users, m \in ChatModels : RouteBegin(1, u, m)
    \/ RouteContinue(1)
    \/ \E u \in Users, m \in Models : CallBegin(1, "api", u, m)
    \/ TierLookup(1)
    \/ AcctZrange(1)
    \/ AcctZcard(1)
    \/ ApiDenied(1)
    \/ ApiRespond(1)
    \/ AddBegin(1)
    \/ AddZrange(1)
    \/ AddNewWindow(1)
    \/ AddToWindow(1)
    \/ ClockTick(WindowTicks)

SpecRoute == InitRoute /\ [][NextRoute]_vars

\* one call of ratelimit or checkRateLimitWithoutIncrementing after the other
NextFollow ==
    \/ \E op \in {"admit", "peek"}, u \in Users, m \in Models : CallBegin(1, op, u, m)
    \/ AdmitStep(1)
    \/ PeekReturn(1)
    \/ ClockTick(MaxTicks)
    \/ \E k \in Keys : StoreExpire(k)

SpecFollow == InitFollow /\ [][NextFollow]_vars

----------------------------------------------------------------------------
(* What the properties speak of *)

\* the one key of the model's calls, its ceiling L and its window W (ms)
TheKey == _makeStorageKey(User1, Gpt4)
Ceiling == _getLimit(Gpt4, premium[User1]).limit
Window == getTimeWindow(Gpt4)

\* the timestamps of the Allowed results
Events == {log[i].event : i \in 1..Len(log)}
DistinctEvents == Cardinality(Events) = Len(log)

\* the Allowed results up to the i-th that fell in the window of the i-th
InWindowUpTo(i) == {j \in 1..i : log[j].start = log[i].start}

----------------------------------------------------------------------------
(* C1 - Monotonic consumption.  Calls of ratelimit made one after the other:
   inside one window the remaining of an Allowed result is never larger than
   that of the Allowed result before it, the L-th Allowed result of the window
   has remaining 0, and no call after it is Allowed in that window. *)
MonotonicConsumption ==
    \A i \in 1..Len(log) :
        /\ (i > 1 /\ log[i-1].start = log[i].start)
              => log[i].remaining <= log[i-1].remaining
        /\ Cardinality(InWindowUpTo(i)) <= Ceiling
        /\ Cardinality(InWindowUpTo(i)) = Ceiling => log[i].remaining = 0

(* C2 - Bounded overshoot.  Concurrent calls of ratelimit on one key, all inside
   one window: at most L + 1 of them return Allowed. *)
BoundedOvershoot ==
    (\A t1, t2 \in Events : t2 - t1 < Window) => Len(log) <= Ceiling + 1

(* C3 - No lost updates.  Concurrent calls of ratelimit on one key with pairwise
   distinct timestamps inside one window: when all have returned, the record
   holds one event for each call that returned Allowed. *)
NoLostUpdates ==
    (/\ NoneInCall
     /\ DistinctEvents
     /\ \A t1, t2 \in Events : t2 - t1 < Window)
        => Cardinality(store[TheKey]) = Len(log)

(* C4 - Window Record invariant.  Under any interleaving of ratelimit,
   checkRateLimitWithoutIncrementing and resetRateLimit, every timestamp t of a
   record satisfies earliest <= t < earliest + W. *)
WindowRecordInvariant ==
    \A k \in Keys : \A t \in store[k] :
        Min(store[k]) <= t /\ t < Min(store[k]) + Window

(* C7 - Rolling window budget.  Calls of ratelimit made one after the other, with
   pairwise distinct timestamps: every interval of W ms holds at most L calls that
   returned Allowed. *)
RollingWindowBudget ==
    DistinctEvents =>
        \A i \in 1..Len(log) :
            Cardinality({j \in 1..Len(log) :
                            /\ log[i].event <= log[j].event
                            /\ log[j].event < log[i].event + Window}) <= Ceiling

----------------------------------------------------------------------------
(* Properties of one call, read from its history *)

\* a call of ratelimit or checkRateLimitWithoutIncrementing has returned
HasReturned == last.returned /\ last.op \in {"admit", "peek"}

(* C8 - Admission Result tagging.  For every ceiling L >= 0: a result with
   allowed = false has remaining = 0 and a timeRemaining that is a number with
   0 < timeRemaining <= W, and a result with allowed = true has timeRemaining
   null. *)
ResultTagging ==
    HasReturned =>
        IF last.result.allowed
        THEN last.result.timeRemaining = <<>>
        ELSE /\ last.result.remaining = 0
             /\ last.result.timeRemaining # <<>>
             /\ 0 < last.result.timeRemaining[1]
             /\ last.result.timeRemaining[1] <= Window

(* C5 - Idempotent peek.  No step of a call of checkRateLimitWithoutIncrementing
   changes the store: the Window Record and its expiry are after the step what
   they were before it, and no budget is consumed.  (What the next ratelimit
   returns is a function of the record, its expiry and the time alone.) *)
IdempotentPeek ==
    [][\A p \in Procs :
          ((proc[p].op = "peek" \/ proc'[p].op = "peek") /\ proc'[p] # proc[p])
             => (store' = store /\ ttl' = ttl /\ log' = log)]_vars

\* a peek has returned from a record that holds events
PeekedAtRecord ==
    /\ HasReturned
    /\ last.op = "peek"
    /\ last.pre # {}
    /\ last.post = last.pre
    /\ last.postTtl = last.preTtl

(* C6 - Window reset.  Calls made one after the other, ceiling L >= 1, on a
   record that holds events, the earliest being earliest.  A ratelimit that runs
   at one clock reading t < earliest + W, with L events recorded, returns Denied
   with timeRemaining = earliest + W - t.  A ratelimit that reads the clock at
   t >= earliest + W returns Allowed with remaining = L - 1 and leaves a record
   whose only event is the time at which it recorded its request (t, when the
   clock did not advance during the call). *)
WindowReset ==
    (HasReturned /\ last.op = "admit" /\ Ceiling >= 1 /\ last.pre # {}) =>
        LET earliest == Min(last.pre)
            t == last.now
        IN
        /\ (t < earliest + Window /\ last.end = t /\ Cardinality(last.pre) = Ceiling)
              => last.result = Denied(0, <<earliest + Window - t>>)
        /\ t >= earliest + Window
              => /\ last.result = Allowed(Ceiling - 1)
                 /\ last.post = {last.nowAdd}
                 /\ last.nowAdd >= t
                 /\ last.end = t => last.nowAdd = t

\* with L = 2: after two Allowed results filled the window, a ratelimit at or
\* after the end of the window was Allowed with remaining 1
WindowWasReset ==
    /\ HasReturned
    /\ last.op = "admit"
    /\ Ceiling = 2
    /\ Cardinality(last.pre) = 2
    /\ last.now >= Min(last.pre) + Window
    /\ last.end = last.now
    /\ last.result = Allowed(1)
    /\ last.post = {last.now}

\* with L events recorded, a ratelimit inside the window was Denied
WindowWasFull ==
    /\ HasReturned
    /\ last.op = "admit"
    /\ Ceiling >= 1
    /\ Cardinality(last.pre) = Ceiling
    /\ last.now < Min(last.pre) + Window
    /\ last.end = last.now
    /\ ~last.result.allowed

(* C9 - Disabled limiter bypass.  While RATELIMITER_ENABLED is "false", ratelimit
   and checkRateLimitWithoutIncrementing return Allowed with remaining = -1 and
   timeRemaining = null whatever the record holds, and they look up no tier and
   neither read nor write the store. *)
DisabledBypass ==
    (HasReturned /\ last.setting = "false") =>
        /\ last.result = [allowed |-> TRUE, remaining |-> 0 - 1, timeRemaining |-> <<>>]
        /\ last.tierLookups = 0
        /\ last.storeReads = 0
        /\ last.storeWrites = 0
        /\ last.post = last.pre
        /\ last.postTtl = last.preTtl

\* a ratelimit returned while the limiter was disabled and the record held events
BypassedWithUsage ==
    /\ HasReturned
    /\ last.op = "admit"
    /\ last.setting = "false"
    /\ last.pre # {}
    /\ last.result.remaining = 0 - 1

(* C10 - as claimed: the bypass result is returned only when the setting
   disables the limiter explicitly, and when the setting is absent the limiter is
   enabled. *)
BypassOnlyWhenDisabled ==
    HasReturned =>
        /\ last.result.remaining = 0 - 1 => last.setting = "false"
        /\ last.setting = Undefined => last.result.remaining # 0 - 1

(* C10 - as amended: the bypass result is returned exactly when RATELIMITER_ENABLED
   is not "true" in some letter case; in particular it is returned when the
   setting is absent, and budgets are enforced only when the setting is "true". *)
BypassUnlessTrue ==
    HasReturned =>
        (last.result = [allowed |-> TRUE, remaining |-> 0 - 1, timeRemaining |-> <<>>]
            <=> last.setting \notin {"true", "TRUE"})

\* a ratelimit returned the bypass result while the setting was absent, although
\* the record held as many events as the ceiling
BypassedWhenAbsent ==
    /\ HasReturned
    /\ last.op = "admit"
    /\ last.setting = Undefined
    /\ Cardinality(last.pre) >= Ceiling
    /\ last.result.remaining = 0 - 1

----------------------------------------------------------------------------
(* Settings and inputs *)

\* the value configured as the ceiling of the call of the history
Configured == env.LIMIT[LimitKey(last.model, premium[last.userId])]

(* C11 - Configuration error is fatal.  When the ceiling configured for the
   call's model and tier is negative or non-numeric, an empty or blank value
   included, ratelimit and checkRateLimitWithoutIncrementing end with an error
   and have neither read nor written the store; they return no result. *)
ConfigErrorFatal ==
    (HasReturned /\ Configured \in {"", " ", "abc", "-1"}) =>
        /\ last.error = "Invalid limit configuration"
        /\ last.storeReads = 0
        /\ last.storeWrites = 0
        /\ last.post = last.pre

(* C12 - Resolved ceilings are natural numbers.  Whenever a call is about to
   resolve its ceiling, for every configured value: if _getLimit raises no error,
   the ceiling it returns is an integer >= 0. *)
LimitIsNatural ==
    \A p \in Procs :
        proc[p].pc = "tier" =>
            LET lim == _getLimit(proc[p].model, premium[proc[p].userId]) IN
            ~lim.threw => (lim.whole /\ lim.limit >= 0)

\* a call of ratelimit, checkRateLimitWithoutIncrementing or resetRateLimit has
\* ended
HasEnded == last.returned /\ last.op \in {"admit", "peek", "reset"}

(* C13 - Invalid input.  A call of ratelimit, checkRateLimitWithoutIncrementing
   or resetRateLimit that is given an empty user identifier or a model that is
   no known class ends with a failure, has neither read nor written the store,
   and leaves no record under the key of its input. *)
InvalidInputRejected ==
    (HasEnded /\ (last.userId = EmptyUser \/ ~IsKnownModel(last.model))) =>
        /\ last.error # "none"
        /\ last.storeReads = 0
        /\ last.storeWrites = 0
        /\ last.post = {}

(* C15 - Default ceilings.  When no ceiling is configured, _getLimit resolves 15
   for a free-tier user and 30 for a premium-tier user, for the plugins class and
   for every other class; on an empty record checkRateLimitWithoutIncrementing
   returns Allowed with remaining 15 or 30, and ratelimit returns Allowed with
   remaining 14 or 29. *)
DefaultCeilings ==
    (\A k \in LimitKeys : env.LIMIT[k] = Undefined) =>
        /\ \A m \in AnyModels :
              /\ _getLimit(m, FALSE) = [threw |-> FALSE, limit |-> 15, whole |-> TRUE]
              /\ _getLimit(m, TRUE) = [threw |-> FALSE, limit |-> 30, whole |-> TRUE]
        /\ (HasReturned /\ last.pre = {}) =>
              LET ceiling == IF premium[last.userId] THEN 30 ELSE 15 IN
              /\ last.error = "none"
              /\ last.op = "peek" => last.result = Allowed(ceiling)
              /\ last.op = "admit" => last.result = Allowed(ceiling - 1)

\* with no ceiling configured, a premium-tier user's first ratelimit for the
\* plugins class returned Allowed with remaining 29
DefaultsApplied ==
    /\ HasReturned
    /\ Configured = Undefined
    /\ last.op = "admit"
    /\ last.model = PluginsModel
    /\ premium[last.userId]
    /\ last.pre = {}
    /\ last.result = Allowed(29)

\* the keys of the users and models of the model: one key for the gpt-4 family,
\* another key for another user
FamilyAndUserKeys ==
    \A u \in AnyUsers, m \in AnyModels :
        /\ startsWith(m, Gpt4) => _makeStorageKey(u, m) = _makeStorageKey(u, Gpt4)
        /\ \A u2 \in AnyUsers \ {u} : _makeStorageKey(u2, m) # _makeStorageKey(u, m)

(* C16 - Key derivation.  The key of a call is a function of its user and model
   alone: a model that begins with "gpt-4" has the key of "gpt-4" for the same
   user, and for the same model the key of any other user differs.  A call
   changes no record but the one under its key. *)
KeyDerivation ==
    /\ FamilyAndUserKeys
    /\ HasEnded =>
          /\ last.frame
          /\ last.post = store[_makeStorageKey(last.userId, last.model)]
          /\ startsWith(last.model, Gpt4)
                => last.post = store[_makeStorageKey(last.userId, Gpt4)]

\* a peek for gpt-4-turbo has seen the record that the user's ratelimit for gpt-4
\* left, while the record of another user is empty
SharedFamilyRecord ==
    /\ HasReturned
    /\ last.op = "peek"
    /\ last.model = Gpt4Turbo
    /\ last.userId = User1
    /\ last.pre # {}
    /\ last.result = Allowed(1)
    /\ store[_makeStorageKey(User2, Gpt4)] = {}

\* what the store held before the failed operation of the last call: the record
\* and expiry that the call found, or nothing if their expiry passed during the
\* call
BeforeFailure ==
    {[store |-> last.pre, ttl |-> last.preTtl]} \cup
    (IF last.preTtl # <<>> /\ last.end >= last.preTtl[1]
     THEN {[store |-> {}, ttl |-> <<>>]}
     ELSE {})

(* C14 - Store failure propagation.  When a store operation of ratelimit or
   checkRateLimitWithoutIncrementing fails (a read of getRemaining, the read of
   _addRequest, its append or its transaction), the call ends with the failure
   and with no result, after that one failed operation (nothing is tried again),
   and the record is as it was before the call or as the complete write leaves
   it: never deleted without the new event, never a new window without its
   expiry.  (The store itself removes a record whose expiry passes.) *)
StoreFailurePropagates ==
    /\ last.storeFaults <= 1
    /\ last.storeFaults = 1 =>
          /\ last.returned
          /\ last.error = "store failure"
          /\ last.storeWrites = 0
          /\ \E before \in BeforeFailure :
                \/ last.post = before.store /\ last.postTtl = before.ttl
                \/ /\ last.post = {last.nowAdd}
                   /\ last.postTtl = <<last.end + 1000 * CeilSeconds(Window)>>
                   /\ StartsNewWindow(last.firstAdd, last.nowAdd, Window)
                \/ /\ last.post = before.store \cup {last.nowAdd}
                   /\ last.postTtl = before.ttl
                   /\ ~StartsNewWindow(last.firstAdd, last.nowAdd, Window)

\* a ratelimit ended with a store failure on a lapsed record, and its transaction
\* had replaced the record
FailedAfterTransaction ==
    /\ last.returned
    /\ last.op = "admit"
    /\ last.error = "store failure"
    /\ last.pre # {}
    /\ last.post = {last.nowAdd}
    /\ last.nowAdd \notin last.pre

----------------------------------------------------------------------------
(* Administrative reset *)

\* the call of the history follows a resetRateLimit of its own key
AfterReset ==
    /\ HasReturned
    /\ last.prev = "reset"
    /\ last.prevKey = _makeStorageKey(last.userId, last.model)

\* resetRateLimit has deleted the record of its key and nothing else
ResetDeletes ==
    (last.returned /\ last.op = "reset") =>
        /\ last.post = {}
        /\ last.postTtl = <<>>
        /\ last.frame

\* the ratelimit that follows a reset starts a window of its own
FreshAfterReset ==
    /\ last.result = Allowed(last.limit - 1)
    /\ last.post = {last.nowAdd}
    /\ last.postTtl = <<last.end + 1000 * CeilSeconds(Window)>>

(* C17 - as claimed: resetRateLimit deletes the record of exactly its key,
   whatever it holds, and changes no other key; the
   checkRateLimitWithoutIncrementing that follows it returns Allowed with the
   full ceiling as remaining, and the ratelimit that follows it starts a fresh
   window that holds its own event alone, with a new expiry. *)
ResetRestoresBudget ==
    /\ ResetDeletes
    /\ AfterReset =>
          /\ last.op = "peek" => last.result = Allowed(last.limit)
          /\ last.op = "admit" => FreshAfterReset

(* C17 - as amended: resetRateLimit deletes the record of exactly its key,
   whatever it holds, and changes no other key.  With a ceiling L >= 1 the
   checkRateLimitWithoutIncrementing that follows it returns Allowed with
   remaining L, and the ratelimit that follows it returns Allowed with remaining
   L - 1 and starts a fresh window that holds its own event alone, with a new
   expiry.  With a ceiling of 0 neither call is Allowed and the record stays
   absent. *)
ResetRestoresPositiveBudget ==
    /\ ResetDeletes
    /\ AfterReset =>
          IF last.limit >= 1
          THEN /\ last.op = "peek" => last.result = Allowed(last.limit)
               /\ last.op = "admit" => FreshAfterReset
          ELSE /\ ~last.result.allowed
               /\ last.post = {}

\* after a reset of a full record inside its window, the user's ratelimit was
\* Allowed and started a window, while the record of the other user was kept
ResetFullRecord ==
    /\ AfterReset
    /\ last.op = "admit"
    /\ last.limit = 2
    /\ last.result = Allowed(1)
    /\ last.post = {last.nowAdd}
    /\ last.userId = User1
    /\ Cardinality(store[_makeStorageKey(User2, Gpt4)]) = 2

----------------------------------------------------------------------------
(* The HTTP adapter *)

(* C18 - HTTP adapter.  checkRatelimitOnApi returns null exactly when its
   ratelimit returns Allowed, the bypass result of a disabled limiter included;
   when its ratelimit returns Denied it returns a response with status 429 whose
   body carries remaining = 0 and the timeRemaining of the Denied result, and
   the call has written nothing to the store. *)
ApiAdapter ==
    (last.returned /\ last.op = "api") =>
        /\ last.api.null <=> last.result.allowed
        /\ last.setting = "false" => (last.api.null /\ last.result = Bypass)
        /\ ~last.result.allowed =>
              /\ last.api.status = 429
              /\ last.api.remaining = 0
              /\ last.api.timeRemaining = last.result.timeRemaining
              /\ last.storeWrites = 0
              /\ last.post \in {last.pre, {}}
              /\ last.postTtl \in {last.preTtl, <<>>}

\* checkRatelimitOnApi has answered 429 on a full record inside its window
AnsweredTooManyRequests ==
    /\ last.returned
    /\ last.op = "api"
    /\ last.limit = 2
    /\ Cardinality(last.pre) = 2
    /\ last.api.status = 429
    /\ last.api.timeRemaining # <<>>
    /\ last.post = last.pre

----------------------------------------------------------------------------
(* The reads and the events of the record *)

(* C19 - Atomic accounting read.  Under any interleaving with the writes and
   resets of other callers, whenever getRemaining has both its answers, the
   earliest timestamp and the cardinality were read from one and the same
   content of the record. *)
AtomicAccountingRead ==
    \A p \in Procs :
        (proc[p].pc = "acct" /\ proc[p].pending = {})
            => proc[p].sawZrange = proc[p].sawZcard

(* C20 - Same-millisecond events.  Calls of ratelimit made one after the other:
   when two consecutive Allowed calls record their event with the same
   millisecond timestamp, the first of them adding its event to what the record
   held, the cardinality of the record after the second is 2 higher than it was
   before the first. *)
SameMillisecondCounted ==
    \A i \in 1..(Len(log) - 1) :
        (/\ log[i].event = log[i+1].event
         /\ log[i].card = log[i].before + 1
         /\ log[i+1].before = log[i].card)
            => log[i+1].card = log[i].before + 2

----------------------------------------------------------------------------
(* Accounting and mutation *)

\* what the call before the last call returned, read and left
Before == last.follow[1]

(* C21 - Window Accounting result.  Whenever getRemaining has read the earliest
   timestamp and the cardinality from a record S, at its time now, with ceiling L:
   it returns (L, null) when S is empty or now >= earliest + W, and otherwise
   (max(0, L - cardinality), t) with t = earliest + W - now when the first
   component is 0 and t = null otherwise; a call of
   checkRateLimitWithoutIncrementing, which does nothing else, has written
   nothing to the store, a lapsed record included. *)
AccountingResult ==
    /\ \A p \in Procs :
          LET c == proc[p] IN
          (c.pc = "acct" /\ c.pending = {} /\ c.sawZrange = c.sawZcard) =>
              LET S == c.sawZrange[1]
                  L == c.limit
                  left == IF L - Cardinality(S) > 0 THEN L - Cardinality(S) ELSE 0
              IN
              Accounted(c) =
                  IF S = {} THEN <<L, <<>>>>
                  ELSE IF c.now >= Min(S) + Window THEN <<L, <<>>>>
                  ELSE IF left = 0 THEN <<0, <<Min(S) + Window - c.now>>>>
                  ELSE <<left, <<>>>>
    /\ (HasReturned /\ last.op = "peek") =>
          /\ last.storeWrites = 0
          /\ last.post = last.pre \/ (last.post = {} /\ last.preTtl # <<>>
                                        /\ last.end >= last.preTtl[1])

\* getRemaining has answered (0, t) on a full record inside its window, and
\* has answered (L, null) on a lapsed record that is still in the store
AccountedFullAndLapsed ==
    /\ proc[1].pc = "acct"
    /\ proc[1].pending = {}
    /\ proc[1].sawZrange = proc[1].sawZcard
    /\ proc[1].limit = 2
    /\ Cardinality(proc[1].sawZrange[1]) = 2
    /\ proc[1].now >= Min(proc[1].sawZrange[1]) + Window
    /\ Accounted(proc[1]) = <<2, <<>>>>
    /\ last.prev = "admit"
    /\ ~Before.result.allowed
    /\ Before.result.timeRemaining # <<>>

(* C22 - Mutation effect.  The write of one _addRequest that read its time now
   and the earliest timestamp of the record, the record being since then
   untouched: when the record was absent or now - earliest >= W, the record
   becomes exactly {now} and its expiry ceil(W / 1000) seconds from the write,
   in the one step of the transaction (no state in between has the record
   deleted and not refilled, or refilled and without expiry); otherwise the
   record gains the event now, keeps every earlier event and keeps its expiry.
   No other record changes. *)
MutationEffect ==
    [][\A p \in Procs :
          LET c == proc[p]
              key == _makeStorageKey(c.userId, c.model)
          IN
          (c.pc = "addWrite" /\ proc'[p].pc = "idle"
                /\ First(zrange(key)) = c.firstAdd) =>
              /\ IF c.firstAdd = <<>> \/ c.nowAdd - Min(store[key]) >= Window
                  THEN /\ store'[key] = {c.nowAdd}
                       /\ ttl'[key] = <<clock + 1000 * ((Window + 999) \div 1000)>>
                  ELSE /\ store'[key] = store[key] \cup {c.nowAdd}
                       /\ ttl'[key] = ttl[key]
              /\ \A k \in Keys \ {key} : store'[k] = store[k] /\ ttl'[k] = ttl[k]
      ]_vars

\* an _addRequest has replaced a lapsed record of two events, the second of them
\* appended, by its own event with a new expiry
ReplacedAppendedRecord ==
    /\ HasReturned
    /\ last.op = "admit"
    /\ last.prev = "admit"
    /\ Cardinality(last.pre) = 2
    /\ last.preTtl # <<>>
    /\ last.post = {last.nowAdd}
    /\ last.nowAdd \notin last.pre
    /\ last.postTtl = <<last.nowAdd + Window>>
    /\ last.postTtl # last.preTtl

\* the Allowed results whose _addRequest started a new window
FreshWrites == {i \in 1..Len(log) : log[i].fresh}

(* C23 - Commutative appends.  While the record written by the last _addRequest
   that started a window has not expired, the record is that event together
   with the events of the _addRequests that took the append branch after it,
   whatever the order in which the appends of concurrent callers reached the
   store; its cardinality is the number of these events. *)
CommutativeAppends ==
    (FreshWrites # {} /\ ttl[TheKey] # <<>>) =>
        LET since == {log[j].event : j \in Max(FreshWrites)..Len(log)} IN
        /\ store[TheKey] = since
        /\ zcard(TheKey) = Cardinality(since)

\* two callers appended to one window, the later event reaching the store first
AppendedOutOfOrder ==
    /\ Len(log) = 3
    /\ FreshWrites = {1}
    /\ ttl[TheKey] # <<>>
    /\ log[3].event < log[2].event
    /\ log[1].event < log[3].event
    /\ zcard(TheKey) = 3

(* C24 - Peek after expiry.  A call of checkRateLimitWithoutIncrementing made
   on a record whose window has lapsed (now >= earliest + W), with a ceiling
   L >= 1, returns Allowed with remaining = L, writes nothing and leaves the
   record and its expiry as they were (only the store's own expiry can remove
   the record meanwhile); so the next peek finds the same lapsed record, and
   so does every peek after it until a call of ratelimit. *)
PeekAfterExpiry ==
    (HasReturned /\ last.op = "peek" /\ Ceiling >= 1 /\ last.pre # {}
         /\ last.now >= Min(last.pre) + Window) =>
        /\ last.result = Allowed(Ceiling)
        /\ last.storeWrites = 0
        /\ \/ last.post = last.pre /\ last.postTtl = last.preTtl
           \/ last.post = {} /\ last.postTtl = <<>> /\ last.preTtl # <<>>
                             /\ last.end >= last.preTtl[1]

\* the second of two peeks on a full record whose window has lapsed and that
\* is still in the store
PeekedTwiceAfterExpiry ==
    /\ HasReturned
    /\ last.op = "peek"
    /\ last.prev = "peek"
    /\ Ceiling = 2
    /\ Cardinality(last.pre) = 2
    /\ Before.now >= Min(last.pre) + Window
    /\ Before.result = Allowed(2)
    /\ Before.post = last.pre
    /\ last.result = Allowed(2)
    /\ last.post = last.pre

(* C25 - Every Window Record has a store expiry.  In every reachable state,
   whatever the interleaving of calls of ratelimit, of resetRateLimit and of the
   store's expiry of keys, each record that holds an event carries an expiry. *)
EveryRecordExpires ==
    \A k \in Keys : store[k] # {} => ttl[k] # <<>>

(* C26 - Reported remaining is accurate.  A call of ratelimit returns Allowed
   with remaining = r, and a call of checkRateLimitWithoutIncrementing follows
   it at once (its Date.now() is the time the first call returned, the record is
   as the first call left it, the clock does not move during it): the second
   call reports remaining = r, or Denied when r = 0. *)
ReportedRemainingAccurate ==
    (HasReturned /\ last.op = "peek" /\ last.prev = "admit"
         /\ Before.result.allowed
         /\ last.now = Before.end /\ last.end = last.now
         /\ last.pre = Before.post /\ last.post = last.pre) =>
        IF Before.result.remaining = 0
        THEN ~last.result.allowed
        ELSE last.result = Allowed(Before.result.remaining)

(* C27 - Peek and admit agree.  A call of checkRateLimitWithoutIncrementing and
   the call of ratelimit after it, of the same user, model and tier, read the
   same time now and are served the same earliest timestamp and cardinality:
   the first returns Allowed exactly when the second does, then with
   remaining one higher than the second, and when both return Denied they carry
   the same timeRemaining. *)
PeekAndAdmitAgree ==
    (HasReturned /\ last.op = "admit" /\ last.prev = "peek"
         /\ last.now = Before.now /\ last.first = Before.first
         /\ last.count = Before.count) =>
        /\ Before.result.allowed <=> last.result.allowed
        /\ last.result.allowed =>
              Before.result.remaining = last.result.remaining + 1
        /\ ~last.result.allowed =>
              Before.result.timeRemaining = last.result.timeRemaining

\* a peek answered Allowed with remaining 1 on a record of one event, and the
\* admit after it, from the same record at the same time, Allowed with remaining 0
PeekThenAdmitAllowed ==
    /\ HasReturned
    /\ last.op = "admit"
    /\ last.prev = "peek"
    /\ last.now = Before.now
    /\ last.first = Before.first
    /\ last.first # <<>>
    /\ last.count = 1
    /\ Before.count = 1
    /\ Before.result = Allowed(1)
    /\ last.result = Allowed(0)

(* C28 - A Denied admit has no effect on the store.  A call of ratelimit that
   returns allowed = false has written nothing: the record and its expiry are
   after the call what they were before it (unless the store itself expired the
   key meanwhile), so a denied attempt neither extends nor restarts the
   window. *)
DeniedAdmitNoEffect ==
    (HasReturned /\ last.op = "admit" /\ ~last.result.allowed) =>
        /\ last.storeWrites = 0
        /\ \/ last.post = last.pre /\ last.postTtl = last.preTtl
           \/ last.post = {} /\ last.postTtl = <<>> /\ last.preTtl # <<>>
                             /\ last.end >= last.preTtl[1]

\* the second of two denied attempts on a full record, at a later time
DeniedTwice ==
    /\ HasReturned
    /\ last.op = "admit"
    /\ last.prev = "admit"
    /\ ~Before.result.allowed
    /\ ~last.result.allowed
    /\ last.now > Before.now
    /\ Cardinality(last.pre) = 2
    /\ last.post = last.pre
    /\ last.preTtl # <<>>
    /\ last.postTtl = last.preTtl

(* C29 - A denial always ends by waiting.  With a ceiling L >= 1, on a record
   that concurrent callers of ratelimit have left, calls of ratelimit are made
   one after the other: a call that returns Denied carries a timeRemaining that
   is a number of at most W, and when the call before was Denied at its time
   now with timeRemaining t, a call whose time is now + t or later returns
   Allowed. *)
DenialEndsByWaiting ==
    (HasReturned /\ last.op = "admit" /\ Ceiling >= 1) =>
        /\ ~last.result.allowed =>
              /\ last.result.timeRemaining # <<>>
              /\ last.result.timeRemaining[1] <= Window
        /\ (last.prev = "admit" /\ ~Before.result.allowed
               /\ last.now >= Before.now + Before.result.timeRemaining[1]) =>
              last.result.allowed

\* concurrent callers left a record of two events under a ceiling of 1; a call
\* was Denied on it, and the call made after the wait it was told is Allowed
AllowedAfterWaiting ==
    /\ HasReturned
    /\ last.op = "admit"
    /\ last.prev = "admit"
    /\ Ceiling = 1
    /\ Cardinality(last.pre) = 2
    /\ ~Before.result.allowed
    /\ Before.result.timeRemaining[1] < Window
    /\ last.now = Before.now + Before.result.timeRemaining[1]
    /\ last.result.allowed
    /\ last.post = {last.nowAdd}

----------------------------------------------------------------------------
(* The plugins route *)

(* C30 - A rejected plugin request consumes no budget.  When the plugins route
   has answered a request with a 429 response, from its first check or from its
   second, no Window Record holds an event that it did not hold when the
   request began. *)
RejectedRequestConsumesNothing ==
    (last.returned /\ last.route # <<>> /\ last.api.status = 429) =>
        \A k \in Keys : store[k] \subseteq last.route[1].pre[k]

====
